---- MODULE Spec2Model ----
(***************************************************************************)
(* State-machine model of src/rpc/rawtransaction.cpp: the RPC handlers     *)
(* sendrawtransaction and signrawtransaction together with the shared node *)
(* state they read and write (the pending pool `mempool`, the chain coin   *)
(* set `pcoinsTip`, the lock `cs_main`, the lock `mempool.cs`).            *)
(*                                                                         *)
(* Help texts and JSON type checks (RPCTypeCheck) are request marshaling   *)
(* and are left out; every other statement of the handlers is modelled.    *)
(* Collaborators whose code is outside this file (AcceptToMemoryPool,      *)
(* ProduceSignature, CombineSignatures, VerifyScript, SignatureHash) are   *)
(* modelled from their contract.                                           *)
(***************************************************************************)
EXTENDS Integers, Sequences, FiniteSets, TLC

\* ------------------------------------------------------------------------
\* Bounds of the model
\* ------------------------------------------------------------------------
NumThreads == 2     \* concurrent RPC worker threads
NumTx == 2          \* distinct transaction bodies a caller may submit
MaxCalls == 2       \* sendrawtransaction calls made in one behaviour

Threads == 1..NumThreads
NoThread == 0
TxIds == 1..NumTx

\* ------------------------------------------------------------------------
\* Shared node state
\* ------------------------------------------------------------------------
VARIABLES
    mempool,        \* set of transaction ids in the pending pool
    pcoinsTip,      \* chain coin set: transaction id -> CCoins or NoCoins
    cs_main,        \* thread holding the chain-state lock, or NoThread
    maxTxFee,       \* configured fee ceiling of the node
    announced,      \* transaction ids handed to RelayTransaction so far
    send,           \* per thread: the frame of its sendrawtransaction call
    lastOk,         \* per transaction id: value returned by the last successful call
    calls,          \* number of calls started so far
    mempool_cs,     \* thread holding the pending-pool lock mempool.cs, or NoThread
    sign,           \* the frame of the signrawtransaction call
    prior,          \* parameters and result of an earlier signrawtransaction call
    merkle          \* a block of the index and the frame of the proof calls

NoCoins == [nHeight |-> -1, vout |-> <<>>]
NoResult == [kind |-> "none"]
NoState == [called |-> FALSE]
NoTx == [body |-> 0, wit |-> "none"]
BadHex == [body |-> 0, wit |-> "bad"]
NoHash == 0

\* Sentinel of line 1000: a coin entry at or above this height is unconfirmed.
UnconfirmedHeight == 1000000000

\* Transactions as decoded from the hex parameter: the body determines the
\* id, the witness does not.
Witnesses == {"w"}
SendTxs == [body : TxIds, wit : Witnesses]

\* CTransaction::GetHash: the id commits to the body only, not to the witness.
GetHash(tx) == tx.body

\* uint256::GetHex: hex rendering of an id.
GetHex(hash) == <<"hex", hash>>

\* DecodeHexTx: fails on an undecodable string.
DecodeHexTx(hex) == hex \in SendTxs

\* CTxMemPool::exists
MempoolExists(pool, hash) == hash \in pool

\* CCoinsViewCache::AccessCoins on pcoinsTip: NULL when no entry.
AccessCoinsTip(coinsTip, hash) == coinsTip[hash]

\* A chain coin entry of a transaction: its height and its outputs.
ChainEntry(h) == [nHeight |-> h, vout |-> <<>>]

\* ------------------------------------------------------------------------
\* sendrawtransaction, lines 984-1020
\* ------------------------------------------------------------------------

\* line 993-995: the fee ceiling handed to pool validation.
MaxRawTxFee(allowhighfees, maxFee) == IF allowhighfees THEN 0 ELSE maxFee

\* line 999
HaveMempool(pool, hash) == MempoolExists(pool, hash)

HaveChainAnyHeight(existingCoins, inPool) == existingCoins # NoCoins

\* line 1000 (inPool is not read by the code: fHaveChain is independent of it)
HaveChain(existingCoins, inPool) ==
    existingCoins # NoCoins /\ existingCoins.nHeight < UnconfirmedHeight

BranchAlwaysSubmit(fHaveMempool, fHaveChain) ==
    IF ~fHaveChain THEN "atmp" ELSE "throw"

BranchSkipValidation(fHaveMempool, fHaveChain) ==
    IF fHaveChain THEN "throw" ELSE "relay"

BranchRelayInChain(fHaveMempool, fHaveChain) ==
    IF ~fHaveMempool /\ ~fHaveChain THEN "atmp" ELSE "relay"

\* lines 1001, 1015: what the call does after the existence checks.
Branch(fHaveMempool, fHaveChain) ==
    IF ~fHaveMempool /\ ~fHaveChain THEN "atmp"
    ELSE IF fHaveChain THEN "throw"
    ELSE "relay"

\* JSONRPCError(code, message)
JSONRPCError(code, message) == [kind |-> "error", code |-> code, message |-> message]

\* strprintf("%i: %s", code, reason)
FormatReject(code, reason) == <<code, ": ", reason>>

\* Fee of a transaction as pool validation computes it.
TxFee(tx) == tx.body

\* AcceptToMemoryPool: the outcomes pool validation may report for tx under
\* the fee ceiling nAbsurdFee (0: no ceiling).
AcceptToMemoryPool(tx, nAbsurdFee) ==
    LET tooHigh == nAbsurdFee # 0 /\ TxFee(tx) > nAbsurdFee
        out(ok, inv, code, reason, missing) ==
            [called |-> TRUE, ok |-> ok, invalid |-> inv, rejectCode |-> code,
             rejectReason |-> reason, fMissingInputs |-> missing]
    IN  (IF tooHigh THEN {out(FALSE, TRUE, 256, "absurdly-high-fee", FALSE)}
                    ELSE {out(TRUE, FALSE, 0, "", FALSE)})
        \cup {out(FALSE, TRUE, 16, "mandatory-script-verify-flag-failed", FALSE)}
        \cup {out(FALSE, FALSE, 0, "", TRUE)}
        \cup {out(FALSE, FALSE, 0, "", FALSE)}

AtmpErrorNoMissingCase(state) ==
    IF state.invalid
    THEN JSONRPCError("RPC_TRANSACTION_REJECTED",
                      FormatReject(state.rejectCode, state.rejectReason))
    ELSE JSONRPCError("RPC_TRANSACTION_ERROR", state.rejectReason)

\* lines 1006-1013: the error raised when pool validation fails.
AtmpError(state) ==
    IF state.invalid
    THEN JSONRPCError("RPC_TRANSACTION_REJECTED",
                      FormatReject(state.rejectCode, state.rejectReason))
    ELSE IF state.fMissingInputs
    THEN JSONRPCError("RPC_TRANSACTION_ERROR", "Missing inputs")
    ELSE JSONRPCError("RPC_TRANSACTION_ERROR", state.rejectReason)

LockDroppedAfterChecks(t, next) ==
    IF next = "check" THEN t ELSE NoThread

LockReleasedBeforeRelay(t, next) ==
    IF next \in {"done", "relay", "return"} THEN NoThread ELSE t

\* LOCK(cs_main) at line 984 is scoped to the function body: the calling
\* thread holds it at every step of the call (line 1018 included) and drops
\* it when the call returns or throws.
LockAfter(t, next) == IF next = "done" THEN NoThread ELSE t

IdleFrame == [pc |-> "idle", tx |-> NoTx, hashTx |-> NoHash, nMaxRawTxFee |-> 0,
              fHaveMempool |-> FALSE, fHaveChain |-> FALSE, state |-> NoState,
              relayed |-> FALSE, result |-> NoResult, prevOk |-> NoResult]

sendVars == <<send, lastOk, announced>>
nodeVars == <<mempool, pcoinsTip, maxTxFee>>
signVars == <<sign, mempool_cs, prior, merkle>>
vars == <<mempool, pcoinsTip, cs_main, maxTxFee, announced, send, lastOk, calls,
          mempool_cs, sign, prior, merkle>>

\* lines 984-991 with a string that does not decode: the call throws at once.
SendDecodeFailed(t) ==
    /\ send[t].pc = "idle"
    /\ calls < MaxCalls
    /\ cs_main = NoThread
    /\ ~DecodeHexTx(BadHex)
    /\ send' = [send EXCEPT ![t] =
                  [IdleFrame EXCEPT !.pc = "done", !.tx = BadHex,
                                    !.result = JSONRPCError("RPC_DESERIALIZATION_ERROR",
                                                            "TX decode failed")]]
    /\ calls' = calls + 1
    /\ UNCHANGED <<mempool, pcoinsTip, cs_main, maxTxFee, announced, lastOk>>
    /\ UNCHANGED signVars

\* lines 984-995: take cs_main, decode the transaction, compute its id and
\* the fee ceiling.
SendBegin(t) ==
    /\ send[t].pc = "idle"
    /\ calls < MaxCalls
    /\ cs_main = NoThread
    /\ \E tx \in SendTxs, allowhighfees \in BOOLEAN :
          /\ DecodeHexTx(tx)
          /\ send' = [send EXCEPT ![t] =
                        [IdleFrame EXCEPT !.pc = "check", !.tx = tx,
                                          !.hashTx = GetHash(tx),
                                          !.nMaxRawTxFee = MaxRawTxFee(allowhighfees, maxTxFee),
                                          !.prevOk = lastOk[GetHash(tx)]]]
    /\ calls' = calls + 1
    /\ cs_main' = LockAfter(t, "check")
    /\ UNCHANGED <<mempool, pcoinsTip, maxTxFee, announced, lastOk>>
    /\ UNCHANGED signVars

\* lines 997-1001, 1015-1016: the existence checks and the branch on them.
SendCheck(t) ==
    /\ send[t].pc = "check"
    /\ LET fHaveMempool == HaveMempool(mempool, send[t].hashTx)
           fHaveChain == HaveChain(AccessCoinsTip(pcoinsTip, send[t].hashTx), fHaveMempool)
           next == Branch(fHaveMempool, fHaveChain)
       IN  IF next = "throw"
           THEN /\ send' = [send EXCEPT ![t].pc = "done",
                                        ![t].fHaveMempool = fHaveMempool,
                                        ![t].fHaveChain = fHaveChain,
                                        ![t].result =
                                            JSONRPCError("RPC_TRANSACTION_ALREADY_IN_CHAIN",
                                                         "transaction already in block chain")]
                /\ cs_main' = LockAfter(t, "done")
           ELSE /\ send' = [send EXCEPT ![t].pc = next,
                                        ![t].fHaveMempool = fHaveMempool,
                                        ![t].fHaveChain = fHaveChain]
                /\ cs_main' = LockAfter(t, next)
    /\ UNCHANGED <<mempool, pcoinsTip, maxTxFee, announced, lastOk, calls>>
    /\ UNCHANGED signVars

\* lines 1003-1014: pool validation; on failure the call throws.
SendSubmit(t) ==
    /\ send[t].pc = "atmp"
    /\ \E state \in AcceptToMemoryPool(send[t].tx, send[t].nMaxRawTxFee) :
          IF state.ok
          THEN /\ mempool' = mempool \cup {send[t].hashTx}
               /\ send' = [send EXCEPT ![t].pc = "relay", ![t].state = state]
               /\ cs_main' = LockAfter(t, "relay")
          ELSE /\ send' = [send EXCEPT ![t].pc = "done", ![t].state = state,
                                       ![t].result = AtmpError(state)]
               /\ cs_main' = LockAfter(t, "done")
               /\ UNCHANGED mempool
    /\ UNCHANGED <<pcoinsTip, maxTxFee, announced, lastOk, calls>>
    /\ UNCHANGED signVars

\* line 1018: RelayTransaction(tx).
SendRelay(t) ==
    /\ send[t].pc = "relay"
    /\ announced' = announced \cup {send[t].hashTx}
    /\ send' = [send EXCEPT ![t].pc = "return", ![t].relayed = TRUE]
    /\ cs_main' = LockAfter(t, "return")
    /\ UNCHANGED <<mempool, pcoinsTip, maxTxFee, lastOk, calls>>
    /\ UNCHANGED signVars

\* line 1020-1021: return the id; the scoped lock is released.
SendReturn(t) ==
    /\ send[t].pc = "return"
    /\ send' = [send EXCEPT ![t].pc = "done",
                            ![t].result = [kind |-> "ok", value |-> GetHex(send[t].hashTx)]]
    /\ lastOk' = [lastOk EXCEPT ![send[t].hashTx] =
                     [kind |-> "ok", value |-> GetHex(send[t].hashTx),
                      validated |-> send[t].state.called]]
    /\ cs_main' = LockAfter(t, "done")
    /\ UNCHANGED <<mempool, pcoinsTip, maxTxFee, announced, calls>>
    /\ UNCHANGED signVars

\* The RPC worker thread takes the next request.
SendNextCall(t) ==
    /\ send[t].pc = "done"
    /\ calls < MaxCalls
    /\ send' = [send EXCEPT ![t] = IdleFrame]
    /\ UNCHANGED <<mempool, pcoinsTip, cs_main, maxTxFee, announced, lastOk, calls>>
    /\ UNCHANGED signVars

\* ------------------------------------------------------------------------
\* signrawtransaction, lines 758-959: data
\* ------------------------------------------------------------------------
MaxIn == 2          \* inputs of the transaction being signed
MaxOut == 2         \* outputs of the transaction being signed
MaxVariants == 2    \* transactions concatenated in the hex parameter
MaxDecl == 1        \* entries of the prevtxs parameter

Keys == {1, 2}
NoKey == 0

\* Locking scripts: pay-to-pubkey and m-of-n multisig over ordered keys.
NullScript == [type |-> "null", m |-> 0, keys |-> <<>>]
P2PK(k) == [type |-> "pubkey", m |-> 1, keys |-> <<k>>]
Multisig(m, ks) == [type |-> "multisig", m |-> m, keys |-> ks]

\* CTxOut and CTxOut::IsNull
TxOut(script, value) == [scriptPubKey |-> script, nValue |-> value]
NullOut == [scriptPubKey |-> NullScript, nValue |-> -1]
IsNull(out) == out.nValue = -1

\* The previous transactions of the model and their outputs (an id commits
\* to the outputs): 1 is confirmed with output 1 spent, 2 is in the pending
\* pool, 3 is known to neither.
PrevIds == {1, 2, 3}
TxOutputs(id) ==
    CASE id = 1 -> <<TxOut(P2PK(1), 5), TxOut(P2PK(2), 5)>>
      [] id = 2 -> <<TxOut(Multisig(2, <<1, 2>>), 7), TxOut(Multisig(1, <<1, 2>>), 7)>>
      [] OTHER  -> <<TxOut(P2PK(2), 3)>>

Outpoints == {<<1, 0>>, <<1, 1>>, <<2, 0>>, <<3, 0>>}

\* MEMPOOL_HEIGHT, the height CCoinsViewMemPool gives to pool coins.
MempoolHeight == (2^30 - 1) * 2 + 1

\* CCoins::IsAvailable(n), n counted from 0
IsAvailable(coins, n) ==
    n >= 0 /\ n < Len(coins.vout) /\ ~IsNull(coins.vout[n + 1])

\* CCoins::IsPruned
IsPruned(coins) == \A j \in 1..Len(coins.vout) : IsNull(coins.vout[j])

\* CCoinsViewMemPool::GetCoins over (chain, pool): a pool transaction
\* yields its outputs at MEMPOOL_HEIGHT, else the unpruned chain entry.
MempoolViewGetCoins(coinsTip, pool, txid) ==
    IF txid \in pool
    THEN [nHeight |-> MempoolHeight, vout |-> TxOutputs(txid)]
    ELSE IF coinsTip[txid] # NoCoins /\ ~IsPruned(coinsTip[txid])
    THEN coinsTip[txid]
    ELSE NoCoins

\* CCoinsView::GetCoins of the call's backend: the dummy view finds nothing.
BackendGetCoins(backend, coinsTip, pool, txid) ==
    IF backend = "mempool" THEN MempoolViewGetCoins(coinsTip, pool, txid) ELSE NoCoins

\* CCoinsViewCache::AccessCoins: the cached entry, else the backend's entry,
\* which is then cached. Gives the new cache and the entry found (NoCoins
\* for NULL).
FetchCoins(cache, backend, coinsTip, pool, txid) ==
    IF cache[txid] # NoCoins
    THEN cache
    ELSE [cache EXCEPT ![txid] = BackendGetCoins(backend, coinsTip, pool, txid)]

AccessCoins(cache, backend, coinsTip, pool, txid) ==
    FetchCoins(cache, backend, coinsTip, pool, txid)[txid]

\* Signature hash types of lines 897-905.
HashType(base, anyone) == [base |-> base, anyone |-> anyone]
SIGHASH_ALL == HashType("ALL", FALSE)
NoHashType == HashType("none", FALSE)
SigHashStrings == {"ALL", "ALL|ANYONECANPAY", "NONE", "NONE|ANYONECANPAY",
                   "SINGLE", "SINGLE|ANYONECANPAY"}
mapSigHashValues(str) ==
    CASE str = "ALL" -> HashType("ALL", FALSE)
      [] str = "ALL|ANYONECANPAY" -> HashType("ALL", TRUE)
      [] str = "NONE" -> HashType("NONE", FALSE)
      [] str = "NONE|ANYONECANPAY" -> HashType("NONE", TRUE)
      [] str = "SINGLE" -> HashType("SINGLE", FALSE)
      [] str = "SINGLE|ANYONECANPAY" -> HashType("SINGLE", TRUE)
\* the values of params[3] the model draws: absent, the six names, a bad one
SigHashParams == {"null", "BOGUS"} \cup SigHashStrings

HashSingleAlways(nHashType) == nHashType.base \in {"SINGLE", "ALL", "NONE"}

\* line 913: (nHashType & ~SIGHASH_ANYONECANPAY) == SIGHASH_SINGLE
HashSingle(nHashType) == nHashType.base = "SINGLE"

ProduceAlways(fHashSingle, i, nOut) == TRUE

\* line 934: only sign SIGHASH_SINGLE if there is a corresponding output
ShouldProduce(fHashSingle, i, nOut) == (~fHashSingle) \/ i < nOut

\* Transactions: inputs with previous outpoint and unlocking script, and
\* outputs. An unlocking script is the sequence of elements it pushes.
TxIn(prevout, scriptSig) == [prevout |-> prevout, scriptSig |-> scriptSig]
Seq1(S, n) == UNION {[1..k -> S] : k \in 1..n}

\* Signature digest (SignatureHash): commits to the script being satisfied,
\* to the hash type, to the spent outpoints (only the input's own under
\* ANYONECANPAY) and to the outputs the hash type selects; unlocking
\* scripts are never part of it. SINGLE without a paired output hashes to
\* the constant "one".
NullDigest == [script |-> NullScript, hashType |-> NoHashType, prevouts |-> <<>>,
               idx |-> -1, outs |-> <<>>]
OneDigest  == [script |-> NullScript, hashType |-> NoHashType, prevouts |-> <<>>,
               idx |-> -2, outs |-> <<>>]

SignatureHash(script, tx, i, nHashType) ==
    IF nHashType.base = "SINGLE" /\ i >= Len(tx.vout)
    THEN OneDigest
    ELSE [script |-> script,
          hashType |-> nHashType,
          prevouts |-> IF nHashType.anyone
                       THEN <<tx.vin[i + 1].prevout>>
                       ELSE [j \in 1..Len(tx.vin) |-> tx.vin[j].prevout],
          idx |-> IF nHashType.anyone THEN 0 ELSE i,
          outs |-> CASE nHashType.base = "ALL" -> tx.vout
                     [] nHashType.base = "NONE" -> <<>>
                     [] OTHER -> <<i, tx.vout[i + 1]>>]

\* A signature: the signing key, the hash type byte and the digest signed.
\* Placeholder is the empty element OP_0.
Placeholder == [key |-> NoKey, hashType |-> NoHashType, digest |-> NullDigest]
MakeSig(key, script, tx, i, nHashType) ==
    [key |-> key, hashType |-> nHashType,
     digest |-> SignatureHash(script, tx, i, nHashType)]

\* TransactionSignatureChecker::CheckSig
CheckSig(sig, pubkey, script, txTo, i) ==
    /\ sig # Placeholder
    /\ sig.key = pubkey
    /\ sig.digest = SignatureHash(script, txTo, i, sig.hashType)

\* The contents of a keystore: the keys it can sign for.
RECURSIVE SignN(_, _, _, _, _, _, _)
SignN(keys, need, keystore, script, tx, i, nHashType) ==
    IF keys = <<>> \/ need = 0
    THEN <<>>
    ELSE IF Head(keys) \in keystore
    THEN <<MakeSig(Head(keys), script, tx, i, nHashType)>>
             \o SignN(Tail(keys), need - 1, keystore, script, tx, i, nHashType)
    ELSE SignN(Tail(keys), need, keystore, script, tx, i, nHashType)

\* ProduceSignature with MutableTransactionSignatureCreator(&keystore,
\* &mergedTx, i, amount, nHashType): signs with every key of the script the
\* keystore holds, in key order, up to the number required.
ProduceSignature(keystore, tx, i, nHashType, script) ==
    CASE script.type = "pubkey" ->
            IF script.keys[1] \in keystore
            THEN <<MakeSig(script.keys[1], script, tx, i, nHashType)>>
            ELSE <<>>
      [] script.type = "multisig" ->
            SignN(script.keys, script.m, keystore, script, tx, i, nHashType)
      [] OTHER -> <<>>

\* DataFromTransaction(tx, i)
DataFromTransaction(tx, i) == tx.vin[i + 1].scriptSig

\* UpdateTransaction(tx, i, sigdata)
UpdateTransaction(tx, i, sigdata) == [tx EXCEPT !.vin[i + 1].scriptSig = sigdata]

\* Elements of a script that are signatures (not placeholders).
SigsOf(scriptSig) == SelectSeq(scriptSig, LAMBDA e : e # Placeholder)

\* CombineMultisig: every signature of both solutions is matched to the
\* first key, in key order, it verifies for and that has no signature yet;
\* the result lists the matched signatures in key order, at most m, and is
\* padded with placeholders up to m.
RECURSIVE MatchKeys(_, _, _, _, _, _)
MatchKeys(allsigs, assigned, script, txTo, i, pos) ==
    IF pos > Len(allsigs)
    THEN assigned
    ELSE LET sig == allsigs[pos]
             fits == {j \in 1..Len(script.keys) :
                         assigned[j] = Placeholder
                         /\ CheckSig(sig, script.keys[j], script, txTo, i)}
             first == CHOOSE j \in fits : \A k \in fits : j <= k
         IN  IF fits = {}
             THEN MatchKeys(allsigs, assigned, script, txTo, i, pos + 1)
             ELSE MatchKeys(allsigs, [assigned EXCEPT ![first] = sig],
                            script, txTo, i, pos + 1)

RECURSIVE TakeSigs(_, _, _)
TakeSigs(assigned, pos, need) ==
    IF need = 0 THEN <<>>
    ELSE IF pos > Len(assigned) THEN [j \in 1..need |-> Placeholder]
    ELSE IF assigned[pos] # Placeholder
    THEN <<assigned[pos]>> \o TakeSigs(assigned, pos + 1, need - 1)
    ELSE TakeSigs(assigned, pos + 1, need)

CombineMultisig(script, txTo, i, sigs1, sigs2) ==
    LET both == SigsOf(sigs1) \o SigsOf(sigs2)
        matched == MatchKeys(both, [j \in 1..Len(script.keys) |-> Placeholder],
                             script, txTo, i, 1)
    IN  TakeSigs(matched, 1, script.m)

\* CombineSignatures(scriptPubKey, TransactionSignatureChecker(&txConst, i,
\* amount), sigs1, sigs2)
CombineSignatures(script, txTo, i, sigs1, sigs2) ==
    CASE script.type = "multisig" -> CombineMultisig(script, txTo, i, sigs1, sigs2)
      [] OTHER -> IF sigs1 = <<>> \/ sigs1[1] = Placeholder THEN sigs2 ELSE sigs1

CombineLastOnly(script, txTo, i, sigdata, txVariants, v) ==
    IF v > Len(txVariants)
    THEN sigdata
    ELSE DataFromTransaction(txVariants[Len(txVariants)], i)

\* lines 938-940: merge in the signatures of every variant, in order.
RECURSIVE CombineAll(_, _, _, _, _, _)
CombineAll(script, txTo, i, sigdata, txVariants, v) ==
    IF v > Len(txVariants)
    THEN sigdata
    ELSE CombineAll(script, txTo, i,
                    CombineSignatures(script, txTo, i, sigdata,
                                      DataFromTransaction(txVariants[v], i)),
                    txVariants, v + 1)

\* OP_CHECKMULTISIG: the signatures must verify against keys in key order.
RECURSIVE CheckMultiSig(_, _, _, _, _, _, _)
CheckMultiSig(sigs, isig, keys, ikey, script, txTo, i) ==
    IF isig > Len(sigs) THEN TRUE
    ELSE IF Len(sigs) - isig > Len(keys) - ikey THEN FALSE
    ELSE IF CheckSig(sigs[isig], keys[ikey], script, txTo, i)
    THEN CheckMultiSig(sigs, isig + 1, keys, ikey + 1, script, txTo, i)
    ELSE CheckMultiSig(sigs, isig, keys, ikey + 1, script, txTo, i)

SCRIPT_ERR_OK == "No error"

\* VerifyScript(scriptSig, prevPubKey, witness, STANDARD_SCRIPT_VERIFY_FLAGS,
\* TransactionSignatureChecker(&txConst, i, amount), &serror): the script
\* error, SCRIPT_ERR_OK on success.
VerifyScript(scriptSig, script, txTo, i) ==
    IF Len(scriptSig) < script.m \/ script.type = "null"
    THEN "Operation not valid with the current stack size"
    ELSE IF Len(scriptSig) > script.m
    THEN "Script evaluated without error but finished with a false/empty top stack element"
    ELSE IF \E j \in 1..Len(scriptSig) : scriptSig[j] = Placeholder
    THEN "Script evaluated without error but finished with a false/empty top stack element"
    ELSE IF script.type = "pubkey"
    THEN IF CheckSig(scriptSig[1], script.keys[1], script, txTo, i)
         THEN SCRIPT_ERR_OK
         ELSE "Signature must be zero for failed CHECK(MULTI)SIG operation"
    ELSE IF CheckMultiSig(scriptSig, 1, script.keys, 1, script, txTo, i)
         THEN SCRIPT_ERR_OK
         ELSE "Signature must be zero for failed CHECK(MULTI)SIG operation"

\* lines 688-693: the error record of an input
TxInError(txin, strMessage) ==
    [txid |-> txin.prevout[1], vout |-> txin.prevout[2],
     scriptSig |-> txin.scriptSig, error |-> strMessage]

TxInErrorFirst(txin, vErrors, strMessage) ==
    <<TxInError(txin, strMessage)>> \o vErrors

\* TxInErrorToJSON(txin, vErrors, strMessage), lines 686-695: the record is
\* pushed at the back of the list.
TxInErrorToJSON(txin, vErrors, strMessage) ==
    Append(vErrors, TxInError(txin, strMessage))

\* ------------------------------------------------------------------------
\* signrawtransaction, lines 758-959: the call
\* ------------------------------------------------------------------------

\* The RPC worker thread that runs the signrawtransaction call.
Caller == CHOOSE t \in Threads : TRUE

\* Keys of the wallet (pwalletMain), used when no private keys are given.
WalletKeys == {2}

EmptyTx == [vin |-> <<>>, vout |-> <<>>]
EmptyCache == [id \in PrevIds |-> NoCoins]

\* CCoins(): the entry ModifyCoins creates for an id the view does not hold.
EmptyCoins == [nHeight |-> 0, vout |-> <<>>]

\* No earlier call is on record.
NoPrior == [kind |-> "none"]
NoMerkle == [pc |-> "none"]

IdleSign == [pc |-> "idle", txVariants |-> <<>>, mergedTx |-> EmptyTx,
             txConst |-> EmptyTx, cache |-> EmptyCache, backend |-> "dummy",
             fGivenKeys |-> FALSE, tempKeystore |-> {}, keystore |-> {},
             nPrevTxs |-> 0, nDecl |-> 0, prevTxs |-> <<>>, nHashType |-> NoHashType, fHashSingle |-> FALSE,
             i |-> 0, vErrors |-> <<>>, result |-> NoResult,
             visited |-> <<>>, produced |-> {}, combined |-> {}, verified |-> {}]

\* What a variant carries for input i: nothing, or the signature of its
\* signer (another party holding key 1) over the output being spent.
VariantSigners == {NoKey, 1}
Content(signer, shape, i) ==
    IF signer = NoKey
    THEN <<>>
    ELSE LET prevout == shape.vin[i + 1].prevout
             script == TxOutputs(prevout[1])[prevout[2] + 1].scriptPubKey
         IN  <<MakeSig(signer, script, shape, i, SIGHASH_ALL)>>

\* The transactions a hex parameter decodes to (lines 765-777): variants of
\* one shape that differ in their unlocking scripts.
Shape(prevouts, nOut) ==
    [vin |-> [j \in 1..Len(prevouts) |-> TxIn(prevouts[j], <<>>)],
     vout |-> [j \in 1..nOut |-> j]]
Variant(shape, signer) ==
    [shape EXCEPT !.vin = [j \in 1..Len(shape.vin) |->
                              TxIn(shape.vin[j].prevout, Content(signer, shape, j - 1))]]
InputLists ==
    {p \in Seq1(Outpoints, MaxIn) : \A a, b \in 1..Len(p) : a # b => p[a] # p[b]}

\* EncodeHexTx
EncodeHexTx(tx) == <<"hex", tx>>

\* LOCK(cs_main) at line 759/761 is scoped to the function body: released
\* when the call returns or throws.
SignUnlock(t) == NoThread

\* A throw out of the call: the result is the error, the frame is left. A
\* message is the sequence of the parts it is concatenated from.
SignThrow(code, message) ==
    /\ sign' = [sign EXCEPT !.pc = "done", !.result = JSONRPCError(code, message)]
    /\ cs_main' = SignUnlock(Caller)

frameVars == <<mempool, pcoinsTip, maxTxFee, announced, send, lastOk, calls, prior,
               merkle>>

\* lines 765-780 with a parameter that does not decode or holds no
\* transaction.
SignDecodeFailed ==
    /\ sign.pc = "idle"
    /\ cs_main = NoThread
    /\ \E message \in {"TX decode failed", "Missing transaction"} :
          sign' = [sign EXCEPT !.pc = "done",
                               !.result = JSONRPCError("RPC_DESERIALIZATION_ERROR",
                                                       <<message>>)]
    /\ UNCHANGED <<cs_main, mempool_cs>>
    /\ UNCHANGED frameVars

\* lines 759-788: take cs_main, decode the variants, clone the first into
\* mergedTx, create the call's empty view over the dummy backend. The
\* request is drawn from the given sets: the inputs of the transaction, its
\* number of outputs, who signed the variants, and the number of entries of
\* params[1] (prevTxs.size(), line 829).
SignBeginWith(lists, outs, signerSet, declCounts) ==
    /\ sign.pc = "idle"
    /\ cs_main = NoThread
    /\ \E prevouts \in lists, nOut \in outs, n \in 1..MaxVariants, nPrevTxs \in declCounts :
          \E signers \in [1..n -> signerSet] :
             LET txVariants == [v \in 1..n |-> Variant(Shape(prevouts, nOut), signers[v])]
             IN  sign' = [IdleSign EXCEPT !.pc = "pool",
                                          !.txVariants = txVariants,
                                          !.mergedTx = txVariants[1],
                                          !.nPrevTxs = nPrevTxs]
    /\ cs_main' = Caller
    /\ UNCHANGED mempool_cs
    /\ UNCHANGED frameVars

SignBegin == SignBeginWith(InputLists, 0..MaxOut, VariantSigners, 0..MaxDecl)

\* lines 790-793: LOCK(mempool.cs); the view's backend becomes chain+pool.
SignLockPool ==
    /\ sign.pc = "pool"
    /\ mempool_cs = NoThread
    /\ mempool_cs' = Caller
    /\ sign' = [sign EXCEPT !.pc = "fetch", !.backend = "mempool"]
    /\ UNCHANGED cs_main
    /\ UNCHANGED frameVars

\* lines 795-799: AccessCoins for the previous transaction of every input.
RECURSIVE FetchInputs(_, _, _, _, _, _)
FetchInputs(cache, backend, coinsTip, pool, vin, j) ==
    IF j > Len(vin)
    THEN cache
    ELSE FetchInputs(FetchCoins(cache, backend, coinsTip, pool, vin[j].prevout[1]),
                     backend, coinsTip, pool, vin, j + 1)

SignFetch ==
    /\ sign.pc = "fetch"
    /\ sign' = [sign EXCEPT !.pc = "unpool",
                            !.cache = FetchInputs(sign.cache, sign.backend, pcoinsTip,
                                                  mempool, sign.mergedTx.vin, 1)]
    /\ UNCHANGED <<cs_main, mempool_cs>>
    /\ UNCHANGED frameVars

PoolLockKept(t) == t

\* line 802: the block of LOCK(mempool.cs) ends, the lock is released.
PoolUnlock(t) == NoThread

\* lines 801-802: back to the dummy backend, mempool.cs released.
SignUnlockPool ==
    /\ sign.pc = "unpool"
    /\ mempool_cs' = PoolUnlock(Caller)
    /\ sign' = [sign EXCEPT !.pc = "keys", !.backend = "dummy"]
    /\ UNCHANGED cs_main
    /\ UNCHANGED frameVars

\* The values of params[2]: absent, or a list of keys (none, key 1, both
\* keys), or a list with a key that does not decode.
KeyParams == {[given |-> FALSE, bad |-> FALSE, keys |-> {}]}
             \cup {[given |-> TRUE, bad |-> FALSE, keys |-> K] : K \in {{}, {1}, Keys}}
             \cup {[given |-> TRUE, bad |-> TRUE, keys |-> {}]}

\* lines 804-820: the temporary keystore.
SignKeys ==
    /\ sign.pc = "keys"
    /\ \E k \in KeyParams :
          IF k.bad
          THEN SignThrow("RPC_INVALID_ADDRESS_OR_KEY", <<"Invalid private key">>)
          ELSE /\ sign' = [sign EXCEPT !.pc = "prevtxs", !.fGivenKeys = k.given,
                                       !.tempKeystore = k.keys]
               /\ UNCHANGED cs_main
    /\ UNCHANGED mempool_cs
    /\ UNCHANGED frameVars

\* The entries of params[1] the model draws: an outpoint, a scriptPubKey and
\* an optional amount (-1: no "amount" key).
NoAmount == -1
PrevTxParams ==
    {[txid |-> 3, vout |-> 0, scriptPubKey |-> P2PK(2), amount |-> NoAmount],
     [txid |-> 3, vout |-> 0, scriptPubKey |-> P2PK(2), amount |-> 3],
     [txid |-> 3, vout |-> 0, scriptPubKey |-> P2PK(1), amount |-> NoAmount],
     [txid |-> 1, vout |-> 0, scriptPubKey |-> P2PK(2), amount |-> NoAmount],
     [txid |-> 1, vout |-> 1, scriptPubKey |-> P2PK(2), amount |-> 5],
     [txid |-> 1, vout |-> -1, scriptPubKey |-> P2PK(1), amount |-> NoAmount]}

\* CCoinsViewCache::ModifyCoins: the cached entry, else the backend's, else
\* a new empty entry.
ModifyCoins(cache, backend, coinsTip, pool, txid) ==
    LET found == AccessCoins(cache, backend, coinsTip, pool, txid)
    IN  IF found = NoCoins THEN EmptyCoins ELSE found

MismatchNever(coins, nOut, scriptPubKey) == FALSE

\* line 854: the declared script contradicts an available coin.
ScriptMismatch(coins, nOut, scriptPubKey) ==
    IsAvailable(coins, nOut) /\ coins.vout[nOut + 1].scriptPubKey # scriptPubKey

\* lines 860-866: the declared output written into the view's entry.
Resize(vout, n) ==
    IF Len(vout) >= n THEN vout
    ELSE vout \o [j \in 1..(n - Len(vout)) |-> NullOut]
DeclareOutput(coins, nOut, scriptPubKey, amount) ==
    [coins EXCEPT !.vout =
        [Resize(coins.vout, nOut + 1) EXCEPT ![nOut + 1] =
            TxOut(scriptPubKey, IF amount = NoAmount THEN 0 ELSE amount)]]

\* lines 829-886: one entry of prevtxs.
SignDeclare ==
    /\ sign.pc = "prevtxs"
    /\ sign.nDecl < sign.nPrevTxs
    /\ \E p \in PrevTxParams :
          IF p.vout < 0
          THEN SignThrow("RPC_DESERIALIZATION_ERROR", <<"vout must be positive">>)
          ELSE LET coins == ModifyCoins(sign.cache, sign.backend, pcoinsTip, mempool, p.txid)
               IN  IF ScriptMismatch(coins, p.vout, p.scriptPubKey)
                   THEN SignThrow("RPC_DESERIALIZATION_ERROR",
                                  <<"Previous output scriptPubKey mismatch:",
                                    coins.vout[p.vout + 1].scriptPubKey, "vs:",
                                    p.scriptPubKey>>)
                   ELSE /\ sign' = [sign EXCEPT
                                       !.nDecl = sign.nDecl + 1,
                                       !.prevTxs = Append(sign.prevTxs, p),
                                       !.cache[p.txid] =
                                           DeclareOutput(coins, p.vout, p.scriptPubKey,
                                                         p.amount)]
                        /\ UNCHANGED cs_main
    /\ UNCHANGED mempool_cs
    /\ UNCHANGED frameVars

\* line 890: the wallet signs unless private keys were given.
Keystore(fGivenKeys, tempKeystore) == IF fGivenKeys THEN tempKeystore ELSE WalletKeys

\* lines 887-920: after the last entry of prevtxs, the keystore, the hash
\* type and the constant copy of the transaction.
SignHashType ==
    /\ sign.pc = "prevtxs"
    /\ sign.nDecl >= sign.nPrevTxs
    /\ \E str \in SigHashParams :
          IF str \notin SigHashStrings \cup {"null"}
          THEN SignThrow("RPC_INVALID_PARAMETER", <<"Invalid sighash param">>)
          ELSE LET nHashType == IF str = "null" THEN SIGHASH_ALL ELSE mapSigHashValues(str)
               IN  /\ sign' = [sign EXCEPT
                                  !.pc = "inputs",
                                  !.keystore = Keystore(sign.fGivenKeys, sign.tempKeystore),
                                  !.nHashType = nHashType,
                                  !.fHashSingle = HashSingle(nHashType),
                                  !.txConst = sign.mergedTx,
                                  !.i = 0,
                                  !.vErrors = <<>>]
                   /\ UNCHANGED cs_main
    /\ UNCHANGED mempool_cs
    /\ UNCHANGED frameVars

AbortOnFailure(i, failed) == IF failed THEN MaxIn + 1 ELSE i + 1

\* line 922: the loop goes on to the next input, whether or not this one
\* failed (the `continue` of line 927, the fall-through of line 947).
NextInput(i, failed) == i + 1

MissingInputCleared(tx, i) == [tx EXCEPT !.vin[i + 1].scriptSig = <<>>]

\* lines 925-928: an input whose coin is missing is left as it is.
MissingInput(tx, i) == tx

\* line 925
CoinMissing(coins, n) == coins = NoCoins \/ ~IsAvailable(coins, n)

\* lines 923-947: one iteration of the signing loop.
SignInput ==
    /\ sign.pc = "inputs"
    /\ sign.i < Len(sign.mergedTx.vin)
    /\ LET i == sign.i
           txin == sign.mergedTx.vin[i + 1]
           coins == AccessCoins(sign.cache, sign.backend, pcoinsTip, mempool,
                                txin.prevout[1])
       IN  IF CoinMissing(coins, txin.prevout[2])
           THEN sign' = [sign EXCEPT
                            !.mergedTx = MissingInput(sign.mergedTx, i),
                            !.vErrors = TxInErrorToJSON(txin, sign.vErrors,
                                                        "Input not found or already spent"),
                            !.visited = Append(sign.visited, i),
                            !.i = NextInput(i, TRUE)]
           ELSE LET prevPubKey == coins.vout[txin.prevout[2] + 1].scriptPubKey
                    produce == ShouldProduce(sign.fHashSingle, i, Len(sign.mergedTx.vout))
                    sigdata0 == IF produce
                                THEN ProduceSignature(sign.keystore, sign.mergedTx, i,
                                                      sign.nHashType, prevPubKey)
                                ELSE <<>>
                    sigdata == CombineAll(prevPubKey, sign.txConst, i, sigdata0,
                                          sign.txVariants, 1)
                    merged == UpdateTransaction(sign.mergedTx, i, sigdata)
                    serror == VerifyScript(merged.vin[i + 1].scriptSig, prevPubKey,
                                           sign.txConst, i)
                IN  sign' = [sign EXCEPT
                                !.mergedTx = merged,
                                !.vErrors = IF serror = SCRIPT_ERR_OK
                                            THEN sign.vErrors
                                            ELSE TxInErrorToJSON(merged.vin[i + 1],
                                                                 sign.vErrors, serror),
                                !.visited = Append(sign.visited, i),
                                !.produced = IF produce THEN sign.produced \cup {i}
                                                        ELSE sign.produced,
                                !.combined = sign.combined \cup {i},
                                !.verified = sign.verified \cup {i},
                                !.i = NextInput(i, serror # SCRIPT_ERR_OK)]
    /\ UNCHANGED <<cs_main, mempool_cs>>
    /\ UNCHANGED frameVars

CompleteAlways(vErrors) == TRUE

\* line 949
Complete(vErrors) == vErrors = <<>>

\* lines 949-958: the result; the scoped lock is released.
SignFinish ==
    /\ sign.pc = "inputs"
    /\ sign.i >= Len(sign.mergedTx.vin)
    /\ sign' = [sign EXCEPT !.pc = "done",
                            !.result = [kind |-> "ok",
                                        hex |-> EncodeHexTx(sign.mergedTx),
                                        complete |-> Complete(sign.vErrors),
                                        errors |-> sign.vErrors]]
    /\ cs_main' = SignUnlock(Caller)
    /\ UNCHANGED mempool_cs
    /\ UNCHANGED frameVars

FrameKeepsView(frame) == [IdleSign EXCEPT !.cache = frame.cache]

\* The locals of the call (view and viewDummy of lines 787-788, keystore,
\* transactions) end with the function body.
DestroyFrame(frame) == IdleSign

\* The call's frame (view, keystore, transactions) is destroyed.
SignNextCall ==
    /\ sign.pc = "done"
    /\ sign' = DestroyFrame(sign)
    /\ UNCHANGED <<cs_main, mempool_cs>>
    /\ UNCHANGED frameVars

\* The node state signrawtransaction runs against: transaction 1 confirmed
\* with its output 1 spent, transaction 2 in the pending pool.
InitSign ==
    /\ mempool = {2}
    /\ pcoinsTip = [id \in PrevIds |->
                      IF id = 1
                      THEN [nHeight |-> 1,
                            vout |-> [TxOutputs(1) EXCEPT ![2] = NullOut]]
                      ELSE NoCoins]
    /\ cs_main = NoThread
    /\ mempool_cs = NoThread
    /\ maxTxFee \in {1}
    /\ announced = {}
    /\ send = [t \in Threads |-> IdleFrame]
    /\ lastOk = [hash \in TxIds |-> NoResult]
    /\ calls = 0
    /\ sign = IdleSign
    /\ prior = NoPrior
    /\ merkle = NoMerkle

NextSign ==
    \/ SignDecodeFailed
    \/ SignBegin
    \/ SignLockPool
    \/ SignFetch
    \/ SignUnlockPool
    \/ SignKeys
    \/ SignDeclare
    \/ SignHashType
    \/ SignInput
    \/ SignFinish
    \/ SignNextCall

SpecSign == InitSign /\ [][NextSign]_vars

\* ------------------------------------------------------------------------
\* signrawtransaction with a prevtxs array of up to MaxRedecl entries, for
\* a transaction of one input.
MaxRedecl == 2
DeclareLists == {<<<<3, 0>>>>, <<<<1, 0>>>>, <<<<1, 1>>>>}
SignBeginDeclare == SignBeginWith(DeclareLists, {1}, {NoKey}, 0..MaxRedecl)

NextDeclare ==
    \/ SignBeginDeclare
    \/ SignLockPool
    \/ SignFetch
    \/ SignUnlockPool
    \/ SignKeys
    \/ SignDeclare
    \/ SignHashType
    \/ SignInput
    \/ SignFinish

SpecDeclare == InitSign /\ [][NextDeclare]_vars

\* ------------------------------------------------------------------------
\* signrawtransaction called twice with the same parameters
\* ------------------------------------------------------------------------

\* The transactions of the repeated call: one input of every kind (an
\* unspent pay-to-pubkey output, a spent output, a 2-of-2 and a 1-of-2
\* multisig output of a pool transaction) and two with a pair of inputs.
RepeatLists == {<<<<1, 0>>>>, <<<<1, 1>>>>, <<<<2, 0>>>>, <<<<2, 1>>>>,
                <<<<1, 1>>, <<2, 1>>>>, <<<<2, 1>>, <<1, 0>>>>}

\* Each variant is unsigned or signed by one of the keys; no prevtxs.
SignBeginRepeat == SignBeginWith(RepeatLists, {1}, {NoKey} \cup Keys, {0})

Reverse(s) == [k \in 1..Len(s) |-> s[Len(s) + 1 - k]]

\* The order in which the repeated call lists the variants in params[0].
Reorder(order, txVariants) ==
    IF order = "reversed" THEN Reverse(txVariants) ELSE txVariants

\* A further call with the same keys, sighash type and node state, and the
\* same variants in the same or in reverse order: the result of the earlier
\* call is put on record, and lines 759-920 take the call to the start of
\* the input loop with the same view, keystore and hash type (they depend
\* on the variants only through the inputs' outpoints), mergedTx and
\* txConst being copies of the variant now listed first (lines 784, 920).
SignRepeat ==
    /\ sign.pc = "done"
    /\ sign.result.kind = "ok"
    /\ prior = NoPrior
    /\ cs_main = NoThread
    /\ \E order \in {"same", "reversed"} :
          LET txVariants == Reorder(order, sign.txVariants)
          IN  /\ prior' = [kind |-> "call", txVariants |-> sign.txVariants,
                           keystore |-> sign.keystore, nHashType |-> sign.nHashType,
                           result |-> sign.result]
              /\ sign' = [sign EXCEPT !.pc = "inputs",
                                      !.txVariants = txVariants,
                                      !.mergedTx = txVariants[1],
                                      !.txConst = txVariants[1],
                                      !.i = 0,
                                      !.vErrors = <<>>,
                                      !.result = NoResult,
                                      !.visited = <<>>,
                                      !.produced = {},
                                      !.combined = {},
                                      !.verified = {}]
    /\ cs_main' = Caller
    /\ UNCHANGED <<mempool, pcoinsTip, maxTxFee, announced, send, lastOk, calls, mempool_cs,
                   merkle>>

NextRepeat ==
    \/ SignBeginRepeat
    \/ SignLockPool
    \/ SignFetch
    \/ SignUnlockPool
    \/ SignKeys
    \/ SignHashType
    \/ SignInput
    \/ SignFinish
    \/ SignRepeat

SpecRepeat == InitSign /\ [][NextRepeat]_vars

\* ------------------------------------------------------------------------
\* gettxoutproof and verifytxoutproof, lines 339-452
\* ------------------------------------------------------------------------
MaxLeaves == 5
MaxReq == 3

\* The transaction ids a caller may name: those a block can hold and one
\* that no block holds.
ProofTxids == 1..(MaxLeaves + 1)

\* uint256 values: the null hash, the hash of a transaction, the hash of
\* two hashes (distinct inputs give distinct hashes).
NullHash == <<>>
TxHash(id) == <<id>>
Hash(left, right) == <<left, right>>

\* The blocks of the index: up to MaxLeaves transactions with distinct ids,
\* in the active chain or not.
BlockVtx(n, reversed) == [j \in 1..n |-> IF reversed THEN n + 1 - j ELSE j]
Blocks ==
    {[vtx |-> BlockVtx(n, reversed), active |-> active] :
        n \in 1..MaxLeaves, reversed \in BOOLEAN, active \in BOOLEAN}

\* BlockMerkleRoot: the hashes are folded level by level, the last hash of
\* a level of odd length being paired with itself.
NextLevel(level) ==
    [j \in 1..((Len(level) + 1) \div 2) |->
        Hash(level[2 * j - 1],
             IF 2 * j <= Len(level) THEN level[2 * j] ELSE level[2 * j - 1])]
RECURSIVE ComputeMerkleRoot(_)
ComputeMerkleRoot(level) ==
    IF Len(level) = 0 THEN NullHash
    ELSE IF Len(level) = 1 THEN level[1]
    ELSE ComputeMerkleRoot(NextLevel(level))
TxHashes(vtx) == [j \in 1..Len(vtx) |-> TxHash(vtx[j])]
BlockMerkleRoot(vtx) == ComputeMerkleRoot(TxHashes(vtx))

\* CBlockHeader of a block: its identity and its merkle root.
Header(block) ==
    [hash |-> <<"block", block.vtx>>, hashMerkleRoot |-> BlockMerkleRoot(block.vtx)]

\* CPartialMerkleTree::CalcTreeWidth
CalcTreeWidth(nTransactions, height) ==
    (nTransactions + 2^height - 1) \div 2^height

\* Height of the tree: the first height whose width is 1.
RECURSIVE TreeHeight(_, _)
TreeHeight(nTransactions, height) ==
    IF CalcTreeWidth(nTransactions, height) > 1
    THEN TreeHeight(nTransactions, height + 1)
    ELSE height

\* CPartialMerkleTree::CalcHash: the hash of the node at (height, pos), pos
\* counted from 0.
RECURSIVE CalcHash(_, _, _)
CalcHash(height, pos, vTxid) ==
    IF height = 0
    THEN vTxid[pos + 1]
    ELSE LET left == CalcHash(height - 1, pos * 2, vTxid)
             right == IF pos * 2 + 1 < CalcTreeWidth(Len(vTxid), height - 1)
                      THEN CalcHash(height - 1, pos * 2 + 1, vTxid)
                      ELSE left
         IN  Hash(left, right)

\* A node is interesting when a leaf below it is matched.
ParentOfMatch(height, pos, vMatch) ==
    \E q \in (pos * 2^height)..((pos + 1) * 2^height - 1) :
        q < Len(vMatch) /\ vMatch[q + 1]

\* CPartialMerkleTree::TraverseAndBuild: depth first, one bit per node
\* visited, the hash of every leaf visited and of every node that is not
\* interesting.
RECURSIVE TraverseAndBuild(_, _, _, _, _)
TraverseAndBuild(height, pos, vTxid, vMatch, tree) ==
    LET fParentOfMatch == ParentOfMatch(height, pos, vMatch)
        marked == [tree EXCEPT !.vBits = Append(@, fParentOfMatch)]
    IN  IF height = 0 \/ ~fParentOfMatch
        THEN [marked EXCEPT !.vHash = Append(@, CalcHash(height, pos, vTxid))]
        ELSE LET left == TraverseAndBuild(height - 1, pos * 2, vTxid, vMatch, marked)
             IN  IF pos * 2 + 1 < CalcTreeWidth(Len(vTxid), height - 1)
                 THEN TraverseAndBuild(height - 1, pos * 2 + 1, vTxid, vMatch, left)
                 ELSE left

\* CPartialMerkleTree(vTxid, vMatch)
CPartialMerkleTree(vTxid, vMatch) ==
    TraverseAndBuild(TreeHeight(Len(vTxid), 0), 0, vTxid, vMatch,
                     [nTransactions |-> Len(vTxid), vBits |-> <<>>, vHash |-> <<>>])

\* CMerkleBlock(block, txids): the header and the partial tree that matches
\* the transactions whose id is in txids.
CMerkleBlock(block, txids) ==
    [header |-> Header(block),
     txn |-> CPartialMerkleTree(TxHashes(block.vtx),
                                [j \in 1..Len(block.vtx) |-> block.vtx[j] \in txids])]

\* Serialization of the bits of a partial tree: eight bits to a byte, the
\* first bit lowest; reading gives eight bits for every byte.
BitValue(vBits, q) == IF q <= Len(vBits) /\ vBits[q] THEN 1 ELSE 0
RECURSIVE ByteOf(_, _, _)
ByteOf(vBits, b, k) ==
    IF k = 8 THEN 0
    ELSE BitValue(vBits, 8 * b + k + 1) * 2^k + ByteOf(vBits, b, k + 1)
PackBits(vBits) == [b \in 1..((Len(vBits) + 7) \div 8) |-> ByteOf(vBits, b - 1, 0)]
UnpackBits(vBytes) ==
    [q \in 1..(8 * Len(vBytes)) |->
        (vBytes[(q - 1) \div 8 + 1] \div 2^((q - 1) % 8)) % 2 = 1]

\* ssMB << mb and HexStr; ParseHexV and ssMB >> merkleBlock.
SerializeMerkleBlock(mb) ==
    <<"hex", mb.header, mb.txn.nTransactions, mb.txn.vHash, PackBits(mb.txn.vBits)>>
DeserializeMerkleBlock(hex) ==
    [header |-> hex[2],
     txn |-> [nTransactions |-> hex[3], vBits |-> UnpackBits(hex[5]), vHash |-> hex[4]]]

\* CPartialMerkleTree::TraverseAndExtract: the traversal replayed from the
\* stored bits and hashes; e carries the bits and hashes used, the matches
\* found, the bad flag and the hash of the node just left.
RECURSIVE TraverseAndExtract(_, _, _, _)
TraverseAndExtract(height, pos, tree, e) ==
    IF e.nBitsUsed >= Len(tree.vBits)
    THEN [e EXCEPT !.fBad = TRUE, !.hash = NullHash]
    ELSE LET fParentOfMatch == tree.vBits[e.nBitsUsed + 1]
             e1 == [e EXCEPT !.nBitsUsed = @ + 1]
         IN  IF height = 0 \/ ~fParentOfMatch
             THEN IF e1.nHashUsed >= Len(tree.vHash)
                  THEN [e1 EXCEPT !.fBad = TRUE, !.hash = NullHash]
                  ELSE LET hash == tree.vHash[e1.nHashUsed + 1]
                           e2 == [e1 EXCEPT !.nHashUsed = @ + 1, !.hash = hash]
                       IN  IF height = 0 /\ fParentOfMatch
                           THEN [e2 EXCEPT !.vMatch = Append(@, hash),
                                           !.vnIndex = Append(@, pos)]
                           ELSE e2
             ELSE LET left == TraverseAndExtract(height - 1, pos * 2, tree, e1)
                  IN  IF pos * 2 + 1 < CalcTreeWidth(tree.nTransactions, height - 1)
                      THEN LET right == TraverseAndExtract(height - 1, pos * 2 + 1,
                                                           tree, left)
                           IN  [right EXCEPT !.hash = Hash(left.hash, right.hash),
                                             !.fBad = right.fBad
                                                        \/ left.hash = right.hash]
                      ELSE [left EXCEPT !.hash = Hash(left.hash, left.hash)]

\* CPartialMerkleTree::ExtractMatches(vMatch, vnIndex): the recomputed root
\* with the matched hashes and their positions, or the null hash.
NoMatches == [root |-> NullHash, vMatch |-> <<>>, vnIndex |-> <<>>]
ExtractMatches(tree) ==
    IF \/ tree.nTransactions = 0
       \/ Len(tree.vHash) > tree.nTransactions
       \/ Len(tree.vBits) < Len(tree.vHash)
    THEN NoMatches
    ELSE LET e == TraverseAndExtract(TreeHeight(tree.nTransactions, 0), 0, tree,
                                     [nBitsUsed |-> 0, nHashUsed |-> 0, vMatch |-> <<>>,
                                      vnIndex |-> <<>>, fBad |-> FALSE,
                                      hash |-> NullHash])
         IN  IF \/ e.fBad
                \/ (e.nBitsUsed + 7) \div 8 # (Len(tree.vBits) + 7) \div 8
                \/ e.nHashUsed # Len(tree.vHash)
             THEN [NoMatches EXCEPT !.vMatch = e.vMatch, !.vnIndex = e.vnIndex]
             ELSE [root |-> e.hash, vMatch |-> e.vMatch, vnIndex |-> e.vnIndex]

\* The frame of the proof calls before a call.
IdleMerkle(block) ==
    [pc |-> "idle", block |-> block, txids |-> <<>>, hashBlock |-> "absent",
     setTxids |-> {}, proof |-> <<>>, result |-> NoResult, extracted |-> NoMatches]

\* The values of params[0] of gettxoutproof: up to MaxReq transaction ids.
TxidParams == UNION {[1..n -> ProofTxids] : n \in 0..MaxReq}

\* lines 346-357: the first id listed a second time, if there is one.
Duplicated(txids) ==
    {idx \in 1..Len(txids) : \E earlier \in 1..(idx - 1) : txids[earlier] = txids[idx]}
Min(S) == CHOOSE x \in S : \A y \in S : x <= y

\* lines 364-387: the block named by params[1], else the block of the
\* active chain that holds the transaction listed last.
NoBlock == [vtx |-> <<>>, active |-> FALSE]
BlockOf(oneTxid, block) ==
    IF block.active /\ \E j \in 1..Len(block.vtx) : block.vtx[j] = oneTxid
    THEN block
    ELSE NoBlock

BuildProofOfAll(block, setTxids) ==
    SerializeMerkleBlock(CMerkleBlock(block, ProofTxids))

\* lines 413-417: the merkle block of the block and the requested ids, as
\* a hex string.
BuildProof(block, setTxids) ==
    SerializeMerkleBlock(CMerkleBlock(block, setTxids))

\* A throw out of gettxoutproof called with the given parameters.
MerkleThrow(txids, hashBlock, code, message) ==
    merkle' = [merkle EXCEPT !.pc = "done", !.txids = txids, !.hashBlock = hashBlock,
                             !.result = JSONRPCError(code, message)]

NtxFoundAll(vtx, setTxids) == Cardinality(setTxids)

\* lines 402-406
NtxFound(vtx, setTxids) == Cardinality({j \in 1..Len(vtx) : vtx[j] \in setTxids})

\* gettxoutproof, lines 339-418.
GetTxOutProof ==
    /\ merkle.pc = "idle"
    /\ cs_main = NoThread
    /\ \E txids \in TxidParams, blockParam \in {"absent", "known", "unknown"} :
          IF Duplicated(txids) # {}
          THEN MerkleThrow(txids, blockParam, "RPC_INVALID_PARAMETER",
                           <<"Invalid parameter, duplicated txid: ",
                             txids[Min(Duplicated(txids))]>>)
          ELSE LET setTxids == {txids[idx] : idx \in 1..Len(txids)}
                   oneTxid == IF Len(txids) = 0 THEN 0 ELSE txids[Len(txids)]
                   block == IF blockParam = "known" THEN merkle.block
                            ELSE BlockOf(oneTxid, merkle.block)
               IN  IF blockParam = "unknown"
                   THEN MerkleThrow(txids, blockParam, "RPC_INVALID_ADDRESS_OR_KEY", <<"Block not found">>)
                   ELSE IF block = NoBlock
                   THEN MerkleThrow(txids, blockParam, "RPC_INVALID_ADDRESS_OR_KEY",
                                    <<"Transaction not yet in block">>)
                   ELSE IF NtxFound(block.vtx, setTxids) # Cardinality(setTxids)
                   THEN MerkleThrow(txids, blockParam, "RPC_INVALID_ADDRESS_OR_KEY",
                                    <<"(Not all) transactions not found in specified block">>)
                   ELSE merkle' = [merkle EXCEPT
                                      !.pc = "built",
                                      !.txids = txids,
                                      !.hashBlock = blockParam,
                                      !.setTxids = setTxids,
                                      !.result = [kind |-> "ok",
                                                  hex |-> BuildProof(block, setTxids)]]
    /\ UNCHANGED <<mempool, pcoinsTip, cs_main, maxTxFee, announced, send, lastOk, calls,
                   mempool_cs, sign, prior>>

\* CBlockHeader::GetHash: headers that differ have different hashes.
HeaderHash(header) == <<"hash", header.hash, header.hashMerkleRoot>>

ChainNotChecked(header, block) == TRUE

\* line 444: the header is in the block index and in the active chain.
InActiveChain(header, block) ==
    HeaderHash(header) = HeaderHash(Header(block)) /\ block.active

\* GetHex of each matched hash.
MatchedIds(vMatch) == [k \in 1..Len(vMatch) |-> <<"hex", vMatch[k]>>]

RootNeverMismatch(root, header) == FALSE

\* line 437: the extracted root is not the merkle root of the header.
RootMismatch(root, header) == root # header.hashMerkleRoot

\* verifytxoutproof, lines 420-452, called with the string hex.
VerifyProof(hex) ==
    LET merkleBlock == DeserializeMerkleBlock(hex)
        extracted == ExtractMatches(merkleBlock.txn)
        frame == [merkle EXCEPT !.pc = "verified", !.proof = hex,
                                !.extracted = extracted]
    IN  IF RootMismatch(extracted.root, merkleBlock.header)
        THEN merkle' = [frame EXCEPT !.result = [kind |-> "ok", res |-> <<>>]]
        ELSE /\ cs_main = NoThread
             /\ IF ~InActiveChain(merkleBlock.header, merkle.block)
                THEN merkle' = [frame EXCEPT
                                   !.result = JSONRPCError("RPC_INVALID_ADDRESS_OR_KEY",
                                                           <<"Block not found in chain">>)]
                ELSE merkle' = [frame EXCEPT
                                   !.result = [kind |-> "ok",
                                               res |-> MatchedIds(extracted.vMatch)]]

\* verifytxoutproof called with the proof gettxoutproof returned.
VerifyTxOutProof ==
    /\ merkle.pc = "built"
    /\ VerifyProof(merkle.result.hex)
    /\ UNCHANGED <<mempool, pcoinsTip, cs_main, maxTxFee, announced, send, lastOk, calls,
                   mempool_cs, sign, prior>>

\* The caller goes on to a further request for a proof.
MerkleNextCall ==
    /\ merkle.pc \in {"done", "verified"}
    /\ merkle' = IdleMerkle(merkle.block)
    /\ UNCHANGED <<mempool, pcoinsTip, cs_main, maxTxFee, announced, send, lastOk, calls,
                   mempool_cs, sign, prior>>

InitMerkle ==
    /\ mempool = {}
    /\ pcoinsTip = [id \in PrevIds |-> NoCoins]
    /\ cs_main = NoThread
    /\ mempool_cs = NoThread
    /\ maxTxFee \in {1}
    /\ announced = {}
    /\ send = [t \in Threads |-> IdleFrame]
    /\ lastOk = [hash \in TxIds |-> NoResult]
    /\ calls = 0
    /\ sign = IdleSign
    /\ prior = NoPrior
    /\ merkle \in {IdleMerkle(block) : block \in Blocks}

NextMerkle ==
    \/ GetTxOutProof
    \/ VerifyTxOutProof
    \/ MerkleNextCall

SpecMerkle == InitMerkle /\ [][NextMerkle]_vars

\* ------------------------------------------------------------------------
\* verifytxoutproof called with a proof from anywhere
\* ------------------------------------------------------------------------

\* What a sender may have done to a merkle block before sending it.
DropLast(seq) == [k \in 1..(Len(seq) - 1) |-> seq[k]]
Tampers == {"none", "dropHash", "extraHash", "noBits", "fewerTx", "moreTx",
            "nullRoot", "otherRoot", "upperLevel"}
Tamper(kind, block, txids) ==
    LET mb == CMerkleBlock(block, txids)
        upper == NextLevel(TxHashes(block.vtx))
    IN  CASE kind = "none" -> mb
          [] kind = "dropHash" -> [mb EXCEPT !.txn.vHash = DropLast(@)]
          [] kind = "extraHash" -> [mb EXCEPT !.txn.vHash = Append(@, NullHash)]
          [] kind = "noBits" -> [mb EXCEPT !.txn.vBits = <<>>]
          [] kind = "fewerTx" -> [mb EXCEPT !.txn.nTransactions = @ - 1]
          [] kind = "moreTx" -> [mb EXCEPT !.txn.nTransactions = 2 * @ + 1]
          [] kind = "nullRoot" -> [mb EXCEPT !.header.hashMerkleRoot = NullHash,
                                             !.txn.vHash = <<>>]
          [] kind = "otherRoot" -> [mb EXCEPT !.header.hashMerkleRoot =
                                                  Hash(@, @)]
          [] kind = "upperLevel" ->
                [mb EXCEPT !.txn = CPartialMerkleTree(upper,
                                       [j \in 1..Len(upper) |-> j = 1])]

\* The values of params[0] of verifytxoutproof that deserialize: a merkle
\* block of any block for up to MaxReq of its ids, as built or tampered with.
ProofParams ==
    {SerializeMerkleBlock(Tamper(kind, block, txids)) :
        kind \in Tampers,
        block \in {b \in Blocks : b.active},
        txids \in {S \in SUBSET ProofTxids : Cardinality(S) <= MaxReq}}

VerifyForeignProof ==
    /\ merkle.pc = "idle"
    /\ \E hex \in ProofParams : VerifyProof(hex)
    /\ UNCHANGED <<mempool, pcoinsTip, cs_main, maxTxFee, announced, send, lastOk, calls,
                   mempool_cs, sign, prior>>

NextVerify ==
    \/ GetTxOutProof
    \/ VerifyTxOutProof
    \/ VerifyForeignProof
    \/ MerkleNextCall

SpecVerify == InitMerkle /\ [][NextVerify]_vars



\* ------------------------------------------------------------------------
\* sendrawtransaction: the specification
\* ------------------------------------------------------------------------
InitSend ==
    /\ mempool \in SUBSET TxIds
    /\ pcoinsTip \in [TxIds -> {NoCoins, ChainEntry(1), ChainEntry(UnconfirmedHeight)}]
    /\ cs_main = NoThread
    /\ maxTxFee \in {1}
    /\ announced = {}
    /\ send = [t \in Threads |-> IdleFrame]
    /\ lastOk = [hash \in TxIds |-> NoResult]
    /\ calls = 0
    /\ mempool_cs = NoThread
    /\ sign = IdleSign
    /\ prior = NoPrior
    /\ merkle = NoMerkle

NextSend ==
    \E t \in Threads :
        \/ SendDecodeFailed(t)
        \/ SendBegin(t)
        \/ SendCheck(t)
        \/ SendSubmit(t)
        \/ SendRelay(t)
        \/ SendReturn(t)
        \/ SendNextCall(t)

SpecSend == InitSend /\ [][NextSend]_vars

\* ------------------------------------------------------------------------
\* Properties of sendrawtransaction
\* ------------------------------------------------------------------------

\* The call of thread t got past decoding and the existence checks.
Checked(t) == send[t].tx \in SendTxs /\ send[t].pc \notin {"idle", "check"}

\* The chain coin set holds a confirmed entry for the id.
ConfirmedOnChain(hash) ==
    pcoinsTip[hash] # NoCoins /\ pcoinsTip[hash].nHeight < UnconfirmedHeight

AlreadyInChainError ==
    JSONRPCError("RPC_TRANSACTION_ALREADY_IN_CHAIN", "transaction already in block chain")

OkResult(hash) == [kind |-> "ok", value |-> GetHex(hash)]

\* C1 as stated: whenever the id is in the pending pool the call returns the
\* id without invoking pool validation, whatever the chain coin set holds.
C1_PoolHitAlwaysSucceeds ==
    \A t \in Threads :
        (Checked(t) /\ send[t].fHaveMempool /\ send[t].pc = "done")
            => (send[t].result = OkResult(send[t].hashTx) /\ ~send[t].state.called)

\* C1 amended: when the id is in the pending pool, pool validation is never
\* invoked; the call returns the id if the chain holds no confirmed coin entry
\* for it, and fails with "transaction already in block chain" if it does.
C1_PoolHitSucceedsUnlessInChain ==
    \A t \in Threads :
        (Checked(t) /\ send[t].fHaveMempool)
            => /\ ~send[t].state.called
               /\ send[t].pc = "done"
                    => send[t].result =
                          IF ConfirmedOnChain(send[t].hashTx)
                          THEN AlreadyInChainError
                          ELSE OkResult(send[t].hashTx)

C1_Witness ==
    \E t \in Threads :
        /\ Checked(t) /\ send[t].fHaveMempool /\ send[t].pc = "done"
        /\ pcoinsTip[send[t].hashTx] # NoCoins
        /\ send[t].result = OkResult(send[t].hashTx)

\* C2: an id that is not in the pending pool but has a confirmed chain coin
\* entry makes the call fail with "transaction already in block chain",
\* without pool validation and without relay.
C2_InChainFails ==
    \A t \in Threads :
        (Checked(t) /\ ~send[t].fHaveMempool /\ ConfirmedOnChain(send[t].hashTx))
            => /\ send[t].pc = "done"
               /\ send[t].result = AlreadyInChainError
               /\ ~send[t].state.called
               /\ ~send[t].relayed

C2_Witness ==
    \E t \in Threads :
        /\ Checked(t) /\ ~send[t].fHaveMempool /\ ConfirmedOnChain(send[t].hashTx)
        /\ send[t].result = AlreadyInChainError

\* C3: a call made with a transaction for which an earlier call succeeded
\* returns the same identifier as that call and never invokes pool validation.
C3_Idempotent ==
    \A t \in Threads :
        (send[t].pc # "idle" /\ send[t].prevOk # NoResult)
            => /\ ~send[t].state.called
               /\ send[t].pc = "done"
                    => (send[t].result.kind = "ok"
                        /\ send[t].result.value = send[t].prevOk.value)

C3_Witness ==
    \E t \in Threads :
        /\ send[t].pc = "done"
        /\ send[t].prevOk # NoResult
        /\ send[t].prevOk.validated
        /\ send[t].result.kind = "ok"
        /\ send[t].result.value = send[t].prevOk.value

\* The three outcomes of pool validation C4 speaks of.
OutcomeClass(state) ==
    IF state.ok THEN "accepted"
    ELSE IF state.invalid THEN "rejected"
    ELSE IF state.fMissingInputs THEN "missing"
    ELSE "other"

Submitted(t) == send[t].pc = "done" /\ send[t].state.called

\* C4: after pool validation, acceptance returns the id, an invalid state
\* raises the 'rejected' error with code and reason, a non-invalid failure
\* with the missing-inputs flag raises 'Missing inputs'; calls that ended in
\* two different of these outcomes never have the same result.
C4_OutcomesDistinct ==
    /\ \A t \in Threads :
          Submitted(t) =>
             LET st == send[t].state
             IN  /\ OutcomeClass(st) = "accepted"
                      => send[t].result = OkResult(send[t].hashTx)
                 /\ OutcomeClass(st) = "rejected"
                      => send[t].result =
                            JSONRPCError("RPC_TRANSACTION_REJECTED",
                                         FormatReject(st.rejectCode, st.rejectReason))
                 /\ OutcomeClass(st) = "missing"
                      => send[t].result =
                            JSONRPCError("RPC_TRANSACTION_ERROR", "Missing inputs")
    /\ \A t1, t2 \in Threads :
          (/\ Submitted(t1) /\ Submitted(t2)
           /\ OutcomeClass(send[t1].state) # "other"
           /\ OutcomeClass(send[t2].state) # "other"
           /\ OutcomeClass(send[t1].state) # OutcomeClass(send[t2].state))
             => send[t1].result # send[t2].result

C4_Witness ==
    \E t1, t2 \in Threads :
        /\ Submitted(t1) /\ Submitted(t2)
        /\ OutcomeClass(send[t1].state) = "rejected"
        /\ OutcomeClass(send[t2].state) = "missing"
        /\ send[t1].hashTx = send[t2].hashTx

\* C5 as stated: every relay is preceded in the same call by a successful
\* pool validation, and no failing call relays.
C5_RelayOnlyAfterValidation ==
    \A t \in Threads :
        /\ send[t].relayed => (send[t].state.called /\ send[t].state.ok)
        /\ send[t].result.kind = "error" => ~send[t].relayed

\* C5 amended: a call relays only after a successful pool validation in the
\* same call or, without validating, when it found the id already in the
\* pending pool and not confirmed on the chain; no failing call relays.
C5_RelayOnlyOnAcceptanceOrPoolHit ==
    \A t \in Threads :
        /\ send[t].relayed
             => \/ send[t].state.called /\ send[t].state.ok
                \/ /\ ~send[t].state.called
                   /\ send[t].fHaveMempool
                   /\ ~ConfirmedOnChain(send[t].hashTx)
        /\ send[t].relayed => send[t].hashTx \in announced
        /\ send[t].result.kind = "error" => ~send[t].relayed

C5_Witness ==
    \E t \in Threads :
        send[t].relayed /\ send[t].state.called /\ send[t].state.ok

\* C6 as stated: RelayTransaction never runs while the calling thread holds
\* cs_main.
C6_RelayAfterUnlock ==
    \A t \in Threads : send[t].pc = "relay" => cs_main # t

\* C6 amended: RelayTransaction runs while the calling thread still holds
\* cs_main; the lock is released only when the call returns or throws.
C6_RelayUnderLock ==
    \A t \in Threads :
        /\ send[t].pc \in {"check", "atmp", "relay", "return"} => cs_main = t
        /\ send[t].pc \in {"idle", "done"} => cs_main # t

C6_Witness ==
    \E t \in Threads : send[t].pc = "relay" /\ cs_main = t

\* ------------------------------------------------------------------------
\* Properties of signrawtransaction
\* ------------------------------------------------------------------------

\* The call returned a result (it did not throw).
Signed == sign.pc = "done" /\ sign.result.kind = "ok"

\* Number of inputs of the call, and its inputs counted from 0.
NumInputs == Len(sign.txVariants[1].vin)
Inputs == 0..(NumInputs - 1)

\* The coin the call's view holds for input j, and whether it is usable.
CoinsOf(j) == sign.cache[sign.txVariants[1].vin[j + 1].prevout[1]]
OutIndexOf(j) == sign.txVariants[1].vin[j + 1].prevout[2]
Resolved(j) == CoinsOf(j) # NoCoins /\ IsAvailable(CoinsOf(j), OutIndexOf(j))
ScriptOf(j) == CoinsOf(j).vout[OutIndexOf(j) + 1].scriptPubKey

\* The error records of the result that name input j's outpoint.
ErrorsOf(j) ==
    {k \in 1..Len(sign.vErrors) :
        /\ sign.vErrors[k].txid = sign.txVariants[1].vin[j + 1].prevout[1]
        /\ sign.vErrors[k].vout = OutIndexOf(j)}

\* Unlocking script of input j in the returned transaction.
FinalScriptSig(j) == sign.result.hex[2].vin[j + 1].scriptSig

\* What the call writes for input j when j is looked at alone: computed
\* from input j's own coin, the keystore and the variants as supplied,
\* with every other input as it was in the first variant.
AloneScriptSig(j) ==
    IF ~Resolved(j)
    THEN sign.txVariants[1].vin[j + 1].scriptSig
    ELSE CombineAll(ScriptOf(j), sign.txVariants[1], j,
                    IF sign.nHashType.base # "SINGLE" \/ j < Len(sign.txVariants[1].vout)
                    THEN ProduceSignature(sign.keystore, sign.txVariants[1], j,
                                          sign.nHashType, ScriptOf(j))
                    ELSE <<>>,
                    sign.txVariants, 1)

\* C7: a failure on one input never aborts the others: the inputs are
\* visited once each, in order, and what is written for input j is what the
\* call writes for j alone, whether or not another input failed.
C7_InputsIndependent ==
    /\ sign.pc = "inputs" =>
          sign.visited = [k \in 1..Len(sign.visited) |-> k - 1]
    /\ Signed =>
          /\ sign.visited = [k \in 1..NumInputs |-> k - 1]
          /\ \A j \in Inputs : FinalScriptSig(j) = AloneScriptSig(j)

C7_Witness ==
    /\ Signed
    /\ NumInputs >= 2
    /\ ErrorsOf(0) # {}
    /\ ErrorsOf(1) = {}
    /\ 1 \in sign.produced
    /\ FinalScriptSig(1) # sign.txVariants[1].vin[2].scriptSig

\* Everything C8 says but the carry-forward: one error record, no
\* production, no verification for an input whose coin is missing.
MissingHandled(j) ==
    /\ Cardinality(ErrorsOf(j)) = 1
    /\ \A k \in ErrorsOf(j) : sign.vErrors[k].error = "Input not found or already spent"
    /\ j \notin sign.produced
    /\ j \notin sign.verified

C9_CompleteIffNoErrors ==
    Signed =>
        /\ sign.result.complete <=> (sign.result.errors = <<>>)
        /\ sign.result.complete <=>
              \A j \in Inputs :
                  /\ Resolved(j)
                  /\ VerifyScript(FinalScriptSig(j), ScriptOf(j), sign.txConst, j)
                          = SCRIPT_ERR_OK

C9_Witness ==
    /\ Signed
    /\ NumInputs >= 2
    /\ sign.result.complete
    /\ sign.produced = Inputs

\* The keystore holds the keys the script of input j requires.
KeysAvailable(j) ==
    Cardinality({k \in 1..Len(ScriptOf(j).keys) : ScriptOf(j).keys[k] \in sign.keystore})
        >= ScriptOf(j).m

AllSignable == \A j \in Inputs : Resolved(j) /\ KeysAvailable(j)

AllVerified ==
    /\ sign.result.complete
    /\ sign.result.errors = <<>>
    /\ \A j \in Inputs :
          VerifyScript(FinalScriptSig(j), ScriptOf(j), sign.txConst, j) = SCRIPT_ERR_OK

\* C10 as stated: all inputs resolvable and all required keys available
\* give complete = true, no error record and passing script evaluation for
\* every hash type and every number of outputs.
C10_CompleteForEveryHashType ==
    (Signed /\ AllSignable) => AllVerified

\* Some input has no output at its index.
UnpairedInput == NumInputs > Len(sign.txVariants[1].vout)

\* C10 amended: the same, for the hash types ALL and NONE (with or without
\* ANYONECANPAY) with any number of outputs, and for SINGLE (with or
\* without ANYONECANPAY) when every input index has an output at the same
\* index.
C10_CompleteUnlessSingleUnpaired ==
    (Signed /\ AllSignable /\ ~(sign.nHashType.base = "SINGLE" /\ UnpairedInput))
        => AllVerified

C10_Witness ==
    /\ Signed /\ AllSignable
    /\ NumInputs >= 2
    /\ sign.nHashType = HashType("SINGLE", TRUE)
    /\ ~UnpairedInput
    /\ sign.produced = Inputs
    /\ AllVerified

\* Input j is resolved, the hash type is SINGLE (with or without
\* ANYONECANPAY) and there is no output at index j.
SingleUnpaired(j) ==
    /\ Resolved(j)
    /\ sign.nHashType.base = "SINGLE"
    /\ j >= Len(sign.txVariants[1].vout)

\* The signatures of a script that were made with the hash type nHashType.
MadeWith(scriptSig, nHashType) ==
    {k \in 1..Len(scriptSig) :
        scriptSig[k] # Placeholder /\ scriptSig[k].hashType = nHashType}

\* C11: with hash type SINGLE an input without an output at its index gets
\* no new signature: production is skipped, no SINGLE signature appears in
\* the result, the skip alone records no error, and combination with the
\* variants and verification still run for the input.
C11_SingleUnpairedNotProduced ==
    Signed =>
        \A j \in Inputs :
            SingleUnpaired(j) =>
                /\ j \notin sign.produced
                /\ j \in sign.combined
                /\ j \in sign.verified
                /\ MadeWith(FinalScriptSig(j), sign.nHashType) = {}
                /\ FinalScriptSig(j) =
                       CombineAll(ScriptOf(j), sign.txConst, j, <<>>, sign.txVariants, 1)
                /\ (ErrorsOf(j) = {}) <=>
                       (VerifyScript(FinalScriptSig(j), ScriptOf(j), sign.txConst, j)
                            = SCRIPT_ERR_OK)

C11_Witness ==
    /\ Signed
    /\ \E j \in Inputs :
          /\ SingleUnpaired(j)
          /\ KeysAvailable(j)
          /\ j \notin sign.produced
          /\ j \in sign.verified
          /\ FinalScriptSig(j) # <<>>
          /\ ErrorsOf(j) = {}

\* The call is a repetition of the call on record with the variants listed
\* in the given order.
Repeated(order) ==
    /\ Signed
    /\ prior # NoPrior
    /\ sign.txVariants = Reorder(order, prior.txVariants)

\* Unlocking script of input j in the transaction the earlier call returned.
PriorScriptSig(j) == prior.result.hex[2].vin[j + 1].scriptSig

\* C12 as stated: given two variants in the order [B, A] the call yields
\* for every input the unlocking content it yields given [A, B].
C12_OrderIndependent ==
    (Repeated("reversed") /\ Len(sign.txVariants) = 2) =>
        \A j \in Inputs : FinalScriptSig(j) = PriorScriptSig(j)

\* The solution ProduceSignature leaves for input j (empty when line 934
\* skips it), and the working solution after the first v variants have
\* been merged in.
ProducedFor(j) ==
    IF ShouldProduce(sign.fHashSingle, j, Len(sign.txVariants[1].vout))
    THEN ProduceSignature(sign.keystore, sign.txVariants[1], j, sign.nHashType, ScriptOf(j))
    ELSE <<>>
Working(j, v) ==
    CombineAll(ScriptOf(j), sign.txConst, j, ProducedFor(j),
               SubSeq(sign.txVariants, 1, v), 1)

\* Positions of the key of sig in the script of input j for which sig
\* verifies; sig is valid for input j if there is one.
KeysVerifying(sig, j) ==
    {k \in 1..Len(ScriptOf(j).keys) :
        CheckSig(sig, ScriptOf(j).keys[k], ScriptOf(j), sign.txConst, j)}
ValidSigs(w, j) == {k \in 1..Len(w) : KeysVerifying(w[k], j) # {}}
Holds(w, sig) == \E k \in 1..Len(w) : w[k] = sig

FullBefore(w, sig, j) ==
    /\ ScriptOf(j).type = "multisig"
    /\ VerifyScript(w, ScriptOf(j), sign.txConst, j) = SCRIPT_ERR_OK
    /\ \A k \in 1..Len(w) :
          \A a \in KeysVerifying(w[k], j) : \A b \in KeysVerifying(sig, j) : a < b

\* The solution w holds a valid signature of the key that sig is valid for.
HoldsSameKey(w, sig, j) ==
    \E k \in 1..Len(w) : KeysVerifying(w[k], j) \cap KeysVerifying(sig, j) # {}

ViewCoins(id) ==
    ModifyCoins(sign.cache, sign.backend, pcoinsTip, mempool, id)

\* A step of the call that processes one entry of prevtxs.
DeclareStep ==
    /\ sign.pc = "prevtxs"
    /\ sign.nDecl < sign.nPrevTxs
    /\ sign' # sign

MismatchError(result) ==
    /\ result.kind = "error"
    /\ result.code = "RPC_DESERIALIZATION_ERROR"
    /\ result.message[1] = "Previous output scriptPubKey mismatch:"

\* C14: a declaration is accepted only if it leaves the locking script of
\* every available coin of the view as it was, so a declaration whose script
\* differs from that of an available coin at its outpoint is rejected; the
\* rejection is a thrown scriptPubKey-mismatch error naming both scripts:
\* the call ends with the error alone (no transaction, no complete flag, no
\* error list) and the view is left as it was.
C14_MismatchIsHardError ==
    [][DeclareStep =>
          /\ sign'.pc = "prevtxs" =>
                \A id \in PrevIds : \A n \in 0..(Len(ViewCoins(id).vout) - 1) :
                    IsAvailable(ViewCoins(id), n) =>
                        sign'.cache[id].vout[n + 1].scriptPubKey
                            = ViewCoins(id).vout[n + 1].scriptPubKey
          /\ sign'.pc # "prevtxs" =>
                /\ sign'.pc = "done"
                /\ sign'.result.kind = "error"
                /\ DOMAIN sign'.result = {"kind", "code", "message"}
                /\ sign'.cache = sign.cache
                /\ MismatchError(sign'.result) =>
                      \E id \in PrevIds : \E n \in 0..(Len(ViewCoins(id).vout) - 1) :
                          /\ IsAvailable(ViewCoins(id), n)
                          /\ sign'.result.message[2] = ViewCoins(id).vout[n + 1].scriptPubKey
                          /\ sign'.result.message[4] # sign'.result.message[2]
    ]_vars

C14_Witness ==
    /\ sign.pc = "done"
    /\ MismatchError(sign.result)
    /\ \E id \in PrevIds : \E n \in 0..(Len(sign.cache[id].vout) - 1) :
          /\ IsAvailable(sign.cache[id], n)
          /\ sign.cache[id].vout[n + 1].scriptPubKey = sign.result.message[2]

\* The entries of prevtxs already processed that name the outpoint of entry p.
Earlier(p) ==
    {k \in 1..Len(sign.prevTxs) :
        /\ sign.prevTxs[k].txid = p.txid
        /\ sign.prevTxs[k].vout = p.vout}

\* The entry of prevtxs a declaration step has just accepted.
Accepted == sign'.prevTxs[Len(sign'.prevTxs)]

\* C15: the overlay is write-once per outpoint within a call. An accepted
\* declaration of an outpoint that was declared earlier in the call leaves
\* the recorded script as it was, and leaves the recorded amount as it was
\* when an earlier declaration gave one; a declaration whose script differs
\* from the recorded one is rejected.
C15_WriteOncePerOutpoint ==
    [][DeclareStep =>
          /\ sign'.pc = "prevtxs" =>
                LET p == Accepted
                    was == ViewCoins(p.txid).vout[p.vout + 1]
                    now == sign'.cache[p.txid].vout[p.vout + 1]
                IN  Earlier(p) # {} =>
                       /\ now.scriptPubKey = was.scriptPubKey
                       /\ (\E k \in Earlier(p) : sign.prevTxs[k].amount # NoAmount)
                             => now.nValue = was.nValue
          /\ \A id \in PrevIds : \A n \in 0..(Len(sign.cache[id].vout) - 1) :
                (/\ \E k \in 1..Len(sign.prevTxs) :
                        sign.prevTxs[k].txid = id /\ sign.prevTxs[k].vout = n
                 /\ sign'.pc = "prevtxs")
                => sign'.cache[id].vout[n + 1].scriptPubKey
                      = sign.cache[id].vout[n + 1].scriptPubKey
    ]_vars

\* C16: the caller holds mempool.cs only between taking it and the end of
\* the snapshot of the inputs' previous transactions; from the parsing of
\* the keys on, and so at every production, combination and verification of
\* a signature, the lock is released and the view's backend is the dummy.
C16_PoolLockOnlyForSnapshot ==
    /\ mempool_cs = Caller => sign.pc \in {"fetch", "unpool"}
    /\ sign.pc \in {"keys", "prevtxs", "inputs", "done"} =>
          /\ mempool_cs # Caller
          /\ sign.backend = "dummy"

C16_Witness ==
    /\ sign.pc = "inputs"
    /\ sign.i >= 1
    /\ sign.produced # {}
    /\ sign.verified # {}
    /\ \E id \in PrevIds : sign.cache[id] # NoCoins
    /\ mempool_cs = NoThread
    /\ sign.backend = "dummy"

\* C17: while the signing loop runs (production, combination and
\* verification of signatures), the caller holds neither cs_main nor
\* mempool.cs.
C17_NoLockDuringSignatureMath ==
    sign.pc = "inputs" =>
        /\ cs_main # Caller
        /\ mempool_cs # Caller

\* Position in the transaction of the input an error record is about.
InputOfRecord(r) ==
    CHOOSE j \in Inputs :
        sign.txVariants[1].vin[j + 1].prevout = <<r.txid, r.vout>>

\* The records of an error list are about inputs of increasing index.
ByInputIndex(errors) ==
    \A a, b \in 1..Len(errors) :
        a < b => InputOfRecord(errors[a]) < InputOfRecord(errors[b])

SharedCoins(id) == MempoolViewGetCoins(pcoinsTip, mempool, id)

\* Every entry of the call's view is the snapshot of what chain and pool
\* resolve, or belongs to a transaction named by an entry of this call's
\* prevtxs.
OverlayIsOfThisCall ==
    \A id \in PrevIds :
        sign.cache[id] \notin {NoCoins, SharedCoins(id)} =>
            \E k \in 1..Len(sign.prevTxs) : sign.prevTxs[k].txid = id

\* C19: no step of signrawtransaction, on its way to a result or to a
\* throw, changes the chain coin set or the pending pool; a coin declared
\* through prevtxs is held in the view of the declaring call only, so the
\* view of a later call holds it only if that call declares it again.
C19_DeclaredCoinsStayLocal ==
    [][/\ mempool' = mempool
       /\ pcoinsTip' = pcoinsTip
       /\ \A id \in PrevIds : SharedCoins(id)' = SharedCoins(id)
       /\ OverlayIsOfThisCall'
       /\ sign.pc = "prevtxs" => sign.backend = "dummy"
    ]_vars

C19_Witness ==
    /\ sign.pc = "done"
    /\ sign.result.kind = "ok"
    /\ \E k \in 1..Len(sign.prevTxs) :
          LET p == sign.prevTxs[k]
          IN  /\ IsAvailable(sign.cache[p.txid], p.vout)
              /\ sign.cache[p.txid].vout[p.vout + 1].scriptPubKey = p.scriptPubKey
              /\ SharedCoins(p.txid) = NoCoins
              /\ pcoinsTip[p.txid] = NoCoins
              /\ p.txid \notin mempool

\* The positions, counted from 0, of the block's transactions whose id is
\* in the requested set.
MatchedPositions ==
    {j \in 0..(Len(merkle.block.vtx) - 1) : merkle.block.vtx[j + 1] \in merkle.setTxids}

\* C20: extraction from the proof gettxoutproof built for a block and a
\* set of ids recomputes the merkle root of the block's full list of ids
\* and gives, in the order of the block, the positions of the block's
\* transactions whose id was requested, each with the hash of the
\* transaction at that position, and nothing else.
C20_MerkleRoundTrip ==
    merkle.pc = "verified" =>
        LET e == merkle.extracted
        IN  /\ e.root = BlockMerkleRoot(merkle.block.vtx)
            /\ Len(e.vMatch) = Len(e.vnIndex)
            /\ {e.vnIndex[k] : k \in 1..Len(e.vnIndex)} = MatchedPositions
            /\ Len(e.vnIndex) = Cardinality(MatchedPositions)
            /\ \A k \in 1..Len(e.vnIndex) :
                  /\ e.vMatch[k] = TxHash(merkle.block.vtx[e.vnIndex[k] + 1])
                  /\ \A later \in (k + 1)..Len(e.vnIndex) : e.vnIndex[k] < e.vnIndex[later]

C20_Witness ==
    /\ merkle.pc = "verified"
    /\ Len(merkle.block.vtx) = MaxLeaves
    /\ merkle.block.vtx[1] # 1
    /\ merkle.extracted.vnIndex = <<1, MaxLeaves - 1>>
    /\ merkle.extracted.root = BlockMerkleRoot(merkle.block.vtx)
    /\ merkle.result.kind = "ok"
    /\ Len(merkle.result.res) = 2

\* The ids gettxoutproof was asked for, and those of the block of the index.
Requested == {merkle.txids[idx] : idx \in 1..Len(merkle.txids)}
BlockIds == {merkle.block.vtx[j] : j \in 1..Len(merkle.block.vtx)}

\* gettxoutproof has returned a proof; it has thrown.
ProofReturned == merkle.pc = "built" /\ merkle.result.kind = "ok"
ProofRefused == merkle.pc = "done" /\ merkle.result.kind = "error"

\* C21: gettxoutproof returns a proof only if every requested id is the id
\* of a transaction of the selected block; a call that asks for an id
\* which is not in the block ends with an error and without a proof.
C21_ProofOnlyForIdsOfBlock ==
    /\ ProofReturned => Requested \subseteq BlockIds
    /\ merkle.pc \in {"built", "done"} =>
          (~(Requested \subseteq BlockIds) =>
              /\ ProofRefused
              /\ DOMAIN merkle.result = {"kind", "code", "message"})

C21_Witness ==
    /\ ProofRefused
    /\ merkle.hashBlock = "known"
    /\ merkle.result.message =
          <<"(Not all) transactions not found in specified block">>
    /\ Requested \cap BlockIds # {}
    /\ Requested \ BlockIds # {}

\* verifytxoutproof has returned matched ids.
IdsReturned ==
    /\ merkle.pc = "verified"
    /\ merkle.result.kind = "ok"
    /\ merkle.result.res # <<>>

\* The merkle block the verified string holds, and what extraction gives.
Carried == DeserializeMerkleBlock(merkle.proof)
Recomputed == ExtractMatches(Carried.txn)

\* C22: verifytxoutproof returns matched ids only for a proof whose
\* extraction succeeds with a root equal to the merkle root of the header
\* it carries, that header being the header of a block of the index that
\* is in the active chain; a proof that is consistent in itself but whose
\* header is unknown or outside the active chain yields no ids.
C22_IdsOnlyForBestChainHeader ==
    IdsReturned =>
        /\ Recomputed.root # NullHash
        /\ Recomputed.root = Carried.header.hashMerkleRoot
        /\ Carried.header = Header(merkle.block)
        /\ merkle.block.active

C22_Witness ==
    /\ IdsReturned
    /\ merkle.hashBlock = "absent"
    /\ merkle.txids = <<>>
    /\ Len(merkle.result.res) >= 2
    /\ Carried.header = Header(merkle.block)

\* C23: verifytxoutproof reports every rejection of a proof that
\* deserializes (extraction invalid, root mismatch, header unknown or not
\* in the active chain) as an empty result, never as an error.
C23_RejectionIsEmptyResult ==
    merkle.pc = "verified" =>
        /\ merkle.result.kind = "ok"
        /\ ~(/\ Recomputed.root # NullHash
             /\ Recomputed.root = Carried.header.hashMerkleRoot
             /\ Carried.header = Header(merkle.block)
             /\ merkle.block.active) => merkle.result.res = <<>>

\* The header the verified string carries is that of a block of the index
\* in the active chain.
CarriedInBestChain == Carried.header = Header(merkle.block) /\ merkle.block.active

\* C23 as the code has it: a proof whose extracted root (null when the
\* extraction fails) differs from the merkle root of the carried header is
\* answered with the empty array; a proof whose root agrees but whose
\* header is unknown or outside the active chain is answered with the
\* thrown error "Block not found in chain"; neither returns ids.
C23_RejectionIsEmptyOrError ==
    merkle.pc = "verified" =>
        /\ Recomputed.root # Carried.header.hashMerkleRoot =>
              merkle.result = [kind |-> "ok", res |-> <<>>]
        /\ (Recomputed.root = Carried.header.hashMerkleRoot /\ ~CarriedInBestChain) =>
              merkle.result = JSONRPCError("RPC_INVALID_ADDRESS_OR_KEY",
                                           <<"Block not found in chain">>)
        /\ merkle.result.kind = "error" =>
              /\ Recomputed.root = Carried.header.hashMerkleRoot
              /\ ~CarriedInBestChain

C23_Witness ==
    /\ merkle.pc = "verified"
    /\ merkle.result.kind = "error"
    /\ Recomputed.root # NullHash
    /\ Recomputed.root = Carried.header.hashMerkleRoot
    /\ Recomputed.vMatch # <<>>
    /\ ~CarriedInBestChain

\* Thread t invokes pool validation in this step.
Validates(t) == send[t].pc = "atmp" /\ send'[t].pc # "atmp"

\* Thread t finishes its existence checks in this step.
Checks(t) == send[t].pc = "check" /\ send'[t].pc # "check"

\* C24: pool validation is never invoked for a transaction that is in the
\* pool, so once an invocation has accepted a transaction no other call
\* carrying it invokes pool validation; a call that finds the transaction
\* in the pool at its existence checks goes on without validation; and no
\* two calls in progress both hold an accepting validation of one
\* transaction.
C24_ValidatedAtMostOnce ==
    [][/\ \A t \in Threads :
             /\ Validates(t) =>
                   /\ send[t].hashTx \notin mempool
                   /\ cs_main = t
             /\ (Checks(t) /\ send[t].hashTx \in mempool) =>
                   /\ send'[t].pc \in {"relay", "done"}
                   /\ ~send'[t].state.called
       /\ \A t1, t2 \in Threads :
             (/\ t1 # t2
              /\ send'[t1].hashTx = send'[t2].hashTx
              /\ send'[t1].state.called
              /\ send'[t2].state.called)
             => ~(send'[t1].state.ok /\ send'[t2].state.ok)
    ]_vars

C24_Witness ==
    \E t1, t2 \in Threads :
        /\ t1 # t2
        /\ send[t1].hashTx = send[t2].hashTx
        /\ send[t1].hashTx # NoHash
        /\ send[t1].state.called
        /\ send[t1].state.ok
        /\ send[t2].pc \in {"relay", "return", "done"}
        /\ send[t2].fHaveMempool
        /\ ~send[t2].state.called
        /\ send[t2].hashTx \in mempool

====
